---- MODULE Spec2Model ----
(***************************************************************************)
(* One-pass weighted random sampling without replacement (wswor).          *)
(*                                                                         *)
(* The module models src/src/lib.rs: the weight validator                  *)
(* HasInvalidWeights::check_weight, the bounded reservoir StreamingWswor   *)
(* (a std BinaryHeap max-heap of WsworEntry ordered by key) and the        *)
(* single-item reservoir SingleStreamingWs.                                *)
(*                                                                         *)
(* Floating point numbers are modelled by a small IEEE-754-like format:    *)
(* a value is NaN, a signed infinity, or a signed magnitude counted in     *)
(* units of 1/one.mag, with round-to-nearest-even division, overflow to    *)
(* infinity above max_value and underflow to zero.                         *)
(***************************************************************************)
EXTENDS Integers, Sequences, FiniteSets, TLC

\* The width of usize in bits.
UsizeBits == 3
\* Largest capacity a StreamingWswor is constructed with.
MaxCount == 3
\* Largest number of accepted items per reservoir.
MaxFeeds == 4
\* Longest input sequence handed to feed_iter.
MaxIter == 3

(***************************************************************************)
(* The float type F: Float                                                 *)
(***************************************************************************)
Fin(m) == [kind |-> "fin", neg |-> FALSE, mag |-> m]

Neg(f) == [f EXCEPT !.neg = TRUE]

NAN == [kind |-> "nan", neg |-> FALSE, mag |-> 0]

INFINITY == [kind |-> "inf", neg |-> FALSE, mag |-> 0]

NEG_INFINITY == Neg(INFINITY)

\* F::zero()
zero == Fin(0)

\* The smallest positive value of the format (a subnormal).
quarter == Fin(1)

\* The smallest positive normal value.
min_positive_value == Fin(2)

one == Fin(4)

two == Fin(8)

\* F::max_value(): the largest finite value.
max_value == Fin(16)

\* Float::classify
classify(f) ==
    IF f.kind = "nan" THEN "Nan"
    ELSE IF f.kind = "inf" THEN "Infinite"
    ELSE IF f.mag = 0 THEN "Zero"
    ELSE IF f.mag < min_positive_value.mag THEN "Subnormal"
    ELSE "Normal"

\* Float::is_sign_negative: the sign bit, whatever the magnitude.
is_sign_negative(f) == f.neg

\* The position of a non-NaN float on the extended real line, in units.
Rank(f) ==
    IF f.kind = "inf"
    THEN (IF f.neg THEN 0 - (max_value.mag + 1) ELSE max_value.mag + 1)
    ELSE (IF f.neg THEN 0 - f.mag ELSE f.mag)

\* f64::partial_cmp: None when either side is NaN; -0.0 equals +0.0.
partial_cmp(a, b) ==
    IF a.kind = "nan" \/ b.kind = "nan" THEN "None"
    ELSE IF Rank(a) < Rank(b) THEN "Less"
    ELSE IF Rank(a) = Rank(b) THEN "Equal"
    ELSE "Greater"

\* a == b on floats
float_eq(a, b) == partial_cmp(a, b) = "Equal"

\* a < b on floats
float_lt(a, b) == partial_cmp(a, b) = "Less"

\* a <= b on floats
float_le(a, b) == partial_cmp(a, b) \in {"Less", "Equal"}

\* Round-to-nearest, ties-to-even quotient of two naturals (d > 0).
RoundDiv(n, d) ==
    LET q == n \div d
        r == n % d
    IN  IF 2 * r > d \/ (2 * r = d /\ q % 2 = 1) THEN q + 1 ELSE q

\* a / b on floats (IEEE-754 division).
float_div(a, b) ==
    LET sign == (a.neg /= b.neg)
        signed(f) == [f EXCEPT !.neg = sign]
    IN  IF a.kind = "nan" \/ b.kind = "nan" THEN NAN
        ELSE IF a.kind = "inf"
             THEN (IF b.kind = "inf" THEN NAN ELSE signed(INFINITY))
        ELSE IF b.kind = "inf" THEN signed(zero)
        ELSE IF b.mag = 0
             THEN (IF a.mag = 0 THEN NAN ELSE signed(INFINITY))
        ELSE LET q == RoundDiv(a.mag * one.mag, b.mag)
             IN  IF q > max_value.mag THEN signed(INFINITY) ELSE signed(Fin(q))

\* The weights a caller feeds.
Weights ==
    {NAN, INFINITY, NEG_INFINITY, Neg(zero), Neg(one), zero, quarter, one}

\* The values Exp1 draws: positive and finite.
Draws == {one, two}

\* The weights of the pairs a caller hands to feed_iter.
IterWeights == {Neg(one), one}

\* The weights of the pairs a caller hands to wswor.
CallWeights == {Neg(one), zero, one}

(***************************************************************************)
(* HasInvalidWeights::check_weight                                         *)
(***************************************************************************)
\* Variant: negativity decided by weight < 0 instead of by the sign bit.
check_weight_by_comparison(weight) ==
    IF classify(weight) = "Nan" THEN "NaN"
    ELSE IF classify(weight) = "Infinite" THEN "Infinite"
    ELSE IF float_lt(weight, zero) THEN "Negative"
    ELSE "Ok"

\* Variant: the sign is tested before the classification.
check_weight_sign_first(weight) ==
    IF is_sign_negative(weight) THEN "Negative"
    ELSE IF classify(weight) = "Nan" THEN "NaN"
    ELSE IF classify(weight) = "Infinite" THEN "Infinite"
    ELSE "Ok"

check_weight(weight) ==
    IF classify(weight) = "Nan" THEN "NaN"
    ELSE IF classify(weight) = "Infinite" THEN "Infinite"
    ELSE IF is_sign_negative(weight) THEN "Negative"
    ELSE "Ok"

(***************************************************************************)
(* WsworEntry and its ordering                                             *)
(***************************************************************************)
WsworEntry(key, val) == [weight |-> key, val |-> val]

\* PartialOrd::partial_cmp of two entries: by key alone.
entry_partial_cmp(a, b) == partial_cmp(a.weight, b.weight)

\* Ord::cmp: partial_cmp(..).unwrap(); "None" stands for the panic of unwrap.
cmp(a, b) == entry_partial_cmp(a, b)

\* a <= b on entries, as PartialOrd provides it: false when partial_cmp is
\* None.  This is the comparison the heap's sift loops make.
entry_le(a, b) == entry_partial_cmp(a, b) \in {"Less", "Equal"}

(***************************************************************************)
(* std BinaryHeap<WsworEntry>: a max-heap in a vector.  Indices are the    *)
(* vector's, from 0; data[i + 1] is the element at index i.                *)
(***************************************************************************)
RECURSIVE sift_up_loop(_, _, _, _)
sift_up_loop(data, elt, start, pos) ==
    IF pos > start
    THEN LET parent == (pos - 1) \div 2
         IN  IF entry_le(elt, data[parent + 1])
             THEN [data EXCEPT ![pos + 1] = elt]
             ELSE sift_up_loop([data EXCEPT ![pos + 1] = data[parent + 1]],
                               elt, start, parent)
    ELSE [data EXCEPT ![pos + 1] = elt]

sift_up(data, start, pos) == sift_up_loop(data, data[pos + 1], start, pos)

RECURSIVE sift_down_loop(_, _, _, _)
sift_down_loop(data, elt, start, pos) ==
    LET end == Len(data)
        child == 2 * pos + 1
    IN  IF end >= 2 /\ child <= end - 2
        THEN LET big == IF entry_le(data[child + 1], data[child + 2])
                        THEN child + 1 ELSE child
             IN  sift_down_loop([data EXCEPT ![pos + 1] = data[big + 1]],
                                elt, start, big)
        ELSE IF child = end - 1
             THEN sift_up_loop([data EXCEPT ![pos + 1] = data[child + 1]],
                               elt, start, child)
        ELSE sift_up_loop(data, elt, start, pos)

sift_down_to_bottom(data, pos) == sift_down_loop(data, data[pos + 1], pos, pos)

\* BinaryHeap::push
heap_push(data, item) == sift_up(Append(data, item), 0, Len(data))

\* Variant: pop drops the vector's last element, not the greatest.
heap_pop_last(data) == SubSeq(data, 1, Len(data) - 1)

\* BinaryHeap::pop on a non-empty heap: the vector after the greatest
\* element has left.
heap_pop(data) ==
    LET last == data[Len(data)]
        rest == SubSeq(data, 1, Len(data) - 1)
    IN  IF rest = <<>> THEN rest
        ELSE sift_down_to_bottom([rest EXCEPT ![1] = last], 0)

(***************************************************************************)
(* StreamingWswor                                                          *)
(*                                                                         *)
(* An operation takes the object (self), its arguments and src, the        *)
(* sequence of values the randomness source yields next, and gives         *)
(* [self, used, res, log]: the object afterwards, the number of draws      *)
(* consumed, the Result ("Ok" or the HasInvalidWeights kind) and the       *)
(* entries constructed, each with the weight it was built from.            *)
(***************************************************************************)
None == 0

\* StreamingWswor::new
wswor_new(c) == [count |-> c, heap |-> <<>>]

\* usize::MAX
usize_MAX == 2 ^ UsizeBits - 1

\* a + b on usize.  An overflow panics in a build with overflow checks (the
\* default of a debug build) and wraps round in a build without them.
usize_add(a, b, overflow_checks) ==
    IF a + b > usize_MAX
    THEN IF overflow_checks THEN [res |-> "panic", val |-> 0]
         ELSE [res |-> "Ok", val |-> (a + b) % (2 ^ UsizeBits)]
    ELSE [res |-> "Ok", val |-> a + b]

\* StreamingWswor::new with the capacity it asks BinaryHeap::with_capacity
\* for: [res, capacity, self].
wswor_new_capacity(c, overflow_checks) ==
    [res |-> usize_add(c, 1, overflow_checks).res,
     capacity |-> usize_add(c, 1, overflow_checks).val,
     self |-> wswor_new(c)]

\* Variant: no special case for a zero weight.
wswor_key_always_draws(weight, src) ==
    [key |-> float_div(src[1], weight), used |-> 1]

\* Variant: the zero weight is tested with < for ==, so it is never found.
wswor_key_zero_by_lt(weight, src) ==
    IF float_lt(weight, zero)
    THEN [key |-> max_value, used |-> 0]
    ELSE [key |-> float_div(src[1], weight), used |-> 1]

\* The key of an entry and the number of draws taken for it (feed, the
\* initialiser of WsworEntry.weight).
wswor_key(weight, src) ==
    IF float_eq(weight, zero)
    THEN [key |-> max_value, used |-> 0]
    ELSE [key |-> float_div(src[1], weight), used |-> 1]

\* Variant: eviction as soon as the heap reaches count.
wswor_evict_at_count(data, c) ==
    IF Len(data) >= c /\ data /= <<>> THEN heap_pop(data) ELSE data

\* Variant: eviction only when the heap outgrew the backing capacity count + 1.
wswor_evict_at_capacity(data, c) ==
    IF Len(data) > c + 1 THEN heap_pop(data) ELSE data

\* feed's eviction: pop when the heap outgrew count.
wswor_evict(data, c) == IF Len(data) > c THEN heap_pop(data) ELSE data

\* Variant: the entry is pushed before the weight is validated.
wswor_feed_push_first(self, val, weight, src) ==
    LET k == wswor_key(weight, src)
        entry == WsworEntry(k.key, val)
        pushed == heap_push(self.heap, entry)
        after == [self EXCEPT !.heap = wswor_evict(pushed, self.count)]
    IN  IF check_weight(weight) /= "Ok"
        THEN [self |-> after, used |-> k.used, res |-> check_weight(weight),
              log |-> <<>>]
        ELSE [self |-> after, used |-> k.used, res |-> "Ok",
              log |-> <<[w |-> weight, val |-> val, key |-> entry.weight]>>]

\* Variant: the draw is taken before the weight is validated.
wswor_feed_draw_first(self, val, weight, src) ==
    LET random == src[1]
        key == IF float_eq(weight, zero) THEN max_value
               ELSE float_div(random, weight)
        entry == WsworEntry(key, val)
        pushed == heap_push(self.heap, entry)
    IN  IF check_weight(weight) /= "Ok"
        THEN [self |-> self, used |-> 1, res |-> check_weight(weight),
              log |-> <<>>]
        ELSE [self |-> [self EXCEPT !.heap = wswor_evict(pushed, self.count)],
              used |-> 1, res |-> "Ok",
              log |-> <<[w |-> weight, val |-> val, key |-> entry.weight]>>]

\* Variant: the weight is validated after the push, before the eviction.
wswor_feed_late_check(self, val, weight, src) ==
    LET k == wswor_key(weight, src)
        entry == WsworEntry(k.key, val)
        pushed == heap_push(self.heap, entry)
    IN  IF check_weight(weight) /= "Ok"
        THEN [self |-> [self EXCEPT !.heap = pushed], used |-> k.used,
              res |-> check_weight(weight), log |-> <<>>]
        ELSE [self |-> [self EXCEPT !.heap = wswor_evict(pushed, self.count)],
              used |-> k.used, res |-> "Ok",
              log |-> <<[w |-> weight, val |-> val, key |-> entry.weight]>>]

\* Variant: a full reservoir turns the new entry away instead of evicting.
wswor_feed_keep_first(self, val, weight, src) ==
    IF check_weight(weight) /= "Ok"
    THEN [self |-> self, used |-> 0, res |-> check_weight(weight),
          log |-> <<>>]
    ELSE LET k == wswor_key(weight, src)
             entry == WsworEntry(k.key, val)
             pushed == heap_push(self.heap, entry)
         IN  [self |-> IF Len(self.heap) >= self.count THEN self
                       ELSE [self EXCEPT !.heap = pushed],
              used |-> k.used, res |-> "Ok",
              log |-> <<[w |-> weight, val |-> val, key |-> entry.weight]>>]

\* StreamingWswor::feed
wswor_feed(self, val, weight, src) ==
    IF check_weight(weight) /= "Ok"
    THEN [self |-> self, used |-> 0, res |-> check_weight(weight),
          log |-> <<>>]
    ELSE LET k == wswor_key(weight, src)
             entry == WsworEntry(k.key, val)
             pushed == heap_push(self.heap, entry)
         IN  [self |-> [self EXCEPT !.heap = wswor_evict(pushed, self.count)],
              used |-> k.used, res |-> "Ok",
              log |-> <<[w |-> weight, val |-> val, key |-> entry.weight]>>]

\* Variant: the loop skips a rejected pair and goes on, reporting the first Err.
RECURSIVE wswor_feed_loop_skip(_, _, _, _)
wswor_feed_loop_skip(acc, iter, i, src) ==
    IF i > Len(iter) THEN acc
    ELSE LET r == wswor_feed(acc.self, iter[i].v, iter[i].w,
                             SubSeq(src, acc.used + 1, Len(src)))
             next == [self |-> r.self, used |-> acc.used + r.used,
                      res |-> IF acc.res /= "Ok" THEN acc.res ELSE r.res,
                      log |-> acc.log \o r.log,
                      pulled |-> acc.pulled + 1]
         IN  wswor_feed_loop_skip(next, iter, i + 1, src)

\* Variant: the loop walks the pairs from the last to the first.
RECURSIVE wswor_feed_loop_reversed(_, _, _, _)
wswor_feed_loop_reversed(acc, iter, i, src) ==
    IF i > Len(iter) THEN acc
    ELSE LET p == iter[Len(iter) + 1 - i]
             r == wswor_feed(acc.self, p.v, p.w,
                             SubSeq(src, acc.used + 1, Len(src)))
             next == [self |-> r.self, used |-> acc.used + r.used,
                      res |-> r.res, log |-> acc.log \o r.log,
                      pulled |-> acc.pulled + 1]
         IN  IF r.res /= "Ok" THEN next
             ELSE wswor_feed_loop_reversed(next, iter, i + 1, src)

\* Variant: a rejected pair ends the loop only after the pairs behind it were
\* fed as well (the error is kept and returned at the end).
RECURSIVE wswor_feed_loop_deferred(_, _, _, _)
wswor_feed_loop_deferred(acc, iter, i, src) ==
    IF i > Len(iter) THEN acc
    ELSE LET r == wswor_feed(acc.self, iter[i].v, iter[i].w,
                             SubSeq(src, acc.used + 1, Len(src)))
             next == [self |-> r.self, used |-> acc.used + r.used,
                      res |-> IF acc.res = "Ok" THEN r.res ELSE acc.res,
                      log |-> acc.log \o r.log,
                      pulled |-> acc.pulled + 1]
         IN  wswor_feed_loop_deferred(next, iter, i + 1, src)

\* The for loop of feed_iter over the pairs iter[i..]: it stops at the first
\* Err.  pulled counts the pairs taken from the iterator.
RECURSIVE wswor_feed_loop(_, _, _, _)
wswor_feed_loop(acc, iter, i, src) ==
    IF i > Len(iter) THEN acc
    ELSE LET r == wswor_feed(acc.self, iter[i].v, iter[i].w,
                              SubSeq(src, acc.used + 1, Len(src)))
             next == [self |-> r.self, used |-> acc.used + r.used,
                      res |-> r.res, log |-> acc.log \o r.log,
                      pulled |-> acc.pulled + 1]
         IN  IF r.res /= "Ok" THEN next
             ELSE wswor_feed_loop(next, iter, i + 1, src)

\* StreamingWswor::feed_iter
wswor_feed_iter(self, iter, src) ==
    wswor_feed_loop([self |-> self, used |-> 0, res |-> "Ok", log |-> <<>>,
                     pulled |-> 0], iter, 1, src)

\* StreamingWswor::iter and ::take: the values in the heap's vector order.
wswor_values(self) == [i \in 1..Len(self.heap) |-> self.heap[i].val]

\* Variant: the iterator drains the heap it walks.
wswor_iter_draining(self) ==
    [self |-> [self EXCEPT !.heap = <<>>], out |-> wswor_values(self)]

\* StreamingWswor::iter: the reservoir afterwards and the values yielded.
wswor_iter(self) == [self |-> self, out |-> wswor_values(self)]

\* Variant: the result of feed_iter is not propagated (no ? after the call).
wswor_return_unchecked(r) ==
    [res |-> "Ok", out |-> wswor_values(r.self), used |-> r.used,
     log |-> r.log, pulled |-> r.pulled]

\* What wswor returns once feed_iter gave r: Err(e), which carries no values
\* (out is empty), or Ok(heap.take()).
wswor_return(r) ==
    IF r.res /= "Ok"
    THEN [res |-> r.res, out |-> <<>>, used |-> r.used, log |-> r.log,
          pulled |-> r.pulled]
    ELSE [res |-> "Ok", out |-> wswor_values(r.self), used |-> r.used,
          log |-> r.log, pulled |-> r.pulled]

\* The function wswor.
wswor(iter, src, c) ==
    wswor_return(wswor_feed_iter(wswor_new(c), iter, src))

(***************************************************************************)
(* SingleStreamingWs                                                       *)
(***************************************************************************)
\* SingleStreamingWs::new
single_new == [value |-> None, exp_value_weight |-> zero]

\* The key of a fed item and the number of draws taken for it.
single_key(weight, src) == [key |-> float_div(src[1], weight), used |-> 1]

\* Variant: the comparison is turned round, so the larger key wins the slot.
single_feed_keep_larger(self, val, weight, src) ==
    IF check_weight(weight) /= "Ok"
    THEN [self |-> self, used |-> 0, res |-> check_weight(weight),
          log |-> <<>>]
    ELSE LET k == single_key(weight, src)
             exp_weight == k.key
             replaced == [value |-> val, exp_value_weight |-> exp_weight]
         IN  [self |-> IF self.value = None THEN replaced
                       ELSE IF float_lt(self.exp_value_weight, exp_weight)
                            THEN replaced
                       ELSE self,
              used |-> k.used, res |-> "Ok",
              log |-> <<[w |-> weight, val |-> val, key |-> exp_weight]>>]

\* Variant: an equal key also replaces the slot (<= for <).
single_feed_replace_on_tie(self, val, weight, src) ==
    IF check_weight(weight) /= "Ok"
    THEN [self |-> self, used |-> 0, res |-> check_weight(weight),
          log |-> <<>>]
    ELSE LET k == single_key(weight, src)
             exp_weight == k.key
             replaced == [value |-> val, exp_value_weight |-> exp_weight]
         IN  [self |-> IF self.value = None THEN replaced
                       ELSE IF float_le(exp_weight, self.exp_value_weight)
                            THEN replaced
                       ELSE self,
              used |-> k.used, res |-> "Ok",
              log |-> <<[w |-> weight, val |-> val, key |-> exp_weight]>>]

\* SingleStreamingWs::feed
single_feed(self, val, weight, src) ==
    IF check_weight(weight) /= "Ok"
    THEN [self |-> self, used |-> 0, res |-> check_weight(weight),
          log |-> <<>>]
    ELSE LET k == single_key(weight, src)
             exp_weight == k.key
             replaced == [value |-> val, exp_value_weight |-> exp_weight]
         IN  [self |-> IF self.value = None THEN replaced
                       ELSE IF float_lt(exp_weight, self.exp_value_weight)
                            THEN replaced
                       ELSE self,
              used |-> k.used, res |-> "Ok",
              log |-> <<[w |-> weight, val |-> val, key |-> exp_weight]>>]

RECURSIVE single_feed_loop(_, _, _, _)
single_feed_loop(acc, iter, i, src) ==
    IF i > Len(iter) THEN acc
    ELSE LET r == single_feed(acc.self, iter[i].v, iter[i].w,
                              SubSeq(src, acc.used + 1, Len(src)))
             next == [self |-> r.self, used |-> acc.used + r.used,
                      res |-> r.res, log |-> acc.log \o r.log,
                      pulled |-> acc.pulled + 1]
         IN  IF r.res /= "Ok" THEN next
             ELSE single_feed_loop(next, iter, i + 1, src)

\* SingleStreamingWs::feed_iter
single_feed_iter(self, iter, src) ==
    single_feed_loop([self |-> self, used |-> 0, res |-> "Ok", log |-> <<>>,
                     pulled |-> 0], iter, 1, src)

\* SingleStreamingWs::get and ::take: the held value, if any.
single_values(self) == IF self.value = None THEN <<>> ELSE <<self.value>>

(***************************************************************************)
(* The state machine.  A behaviour constructs one reservoir, feeds it,      *)
(* peeks at it and may take it, or calls the function wswor once.          *)
(*   obj                      which reservoir was constructed, or "wswor"  *)
(*                            for a call of the function                   *)
(*   count, heap              the fields of the StreamingWswor             *)
(*   value, exp_value_weight  the fields of the SingleStreamingWs          *)
(*   rng                      the draws the randomness source has yielded  *)
(*   accepted                 history: the items fed with a valid weight,  *)
(*                            each [w, val, key], in feed order            *)
(*   last                     the last call: [op, arg, res, pulled]: arg   *)
(*                            the weights handed to it in order, pulled    *)
(*                            the number of them it took                   *)
(*   rejected                 history: some feed returned Err so far       *)
(*   out                      what the last iter(), take() or wswor()      *)
(*                            yielded                                      *)
(***************************************************************************)
VARIABLES obj, count, heap, value, exp_value_weight, rng, accepted, last,
          rejected, out

vars ==
    <<obj, count, heap, value, exp_value_weight, rng, accepted, last, rejected,
      out>>

wswor_self == [count |-> count, heap |-> heap]

single_self == [value |-> value, exp_value_weight |-> exp_value_weight]

SeqsUpTo(S, n) == UNION {[1..m -> S] : m \in 0..n}

\* The pairs of an input sequence: the caller labels the items it feeds
\* 1, 2, ... in the order they are accepted.
Pairs(ws) == [i \in 1..Len(ws) |-> [w |-> ws[i], v |-> Len(accepted) + i]]

Alive == last.op /= "take"

\* The reservoir is alive and n more items keep the history within MaxFeeds.
CanFeed(n) == Alive /\ Len(accepted) + n <= MaxFeeds

\* A source long enough for every pair of ws to draw from.
Pad(ws) == [i \in 1..Len(ws) |-> one]

Init ==
    /\ obj \in {"StreamingWswor", "SingleStreamingWs", "wswor"}
    /\ count \in (IF obj = "SingleStreamingWs" THEN {0} ELSE 0..MaxCount)
    /\ heap = wswor_new(count).heap
    /\ value = single_new.value
    /\ exp_value_weight = single_new.exp_value_weight
    /\ rng = <<>>
    /\ accepted = <<>>
    /\ last = [op |-> "new", arg |-> <<>>, res |-> "Ok", pulled |-> 0]
    /\ rejected = FALSE
    /\ out = <<>>

\* The effect of a feed or feed_iter call with result r on the
\* reservoir-independent state.  The call takes &mut self, so the references
\* an earlier iter() yielded are gone by then.
Record(op, arg, r, src) ==
    /\ rng' = rng \o SubSeq(src, 1, r.used)
    /\ accepted' = accepted \o r.log
    /\ last' = [op |-> op, arg |-> arg, res |-> r.res, pulled |-> r.pulled]
    /\ rejected' = (rejected \/ r.res /= "Ok")
    /\ out' = <<>>
    /\ UNCHANGED <<obj, count>>

WsworFeed(weight, e) ==
    /\ obj = "StreamingWswor" /\ CanFeed(1)
    /\ LET r == wswor_feed(wswor_self, Len(accepted) + 1, weight, <<e>>)
       IN  /\ heap' = r.self.heap
           /\ Record("feed", <<weight>>, r @@ [pulled |-> 1], <<e>>)
    /\ UNCHANGED <<value, exp_value_weight>>

WsworFeedIter(ws) ==
    /\ obj = "StreamingWswor" /\ CanFeed(Len(ws))
    /\ \E src \in [1..wswor_feed_iter(wswor_self, Pairs(ws), Pad(ws)).used -> Draws] :
          LET r == wswor_feed_iter(wswor_self, Pairs(ws), src)
          IN  /\ heap' = r.self.heap
              /\ Record("feed_iter", ws, r, src)
    /\ UNCHANGED <<value, exp_value_weight>>

WsworTake ==
    /\ obj = "StreamingWswor" /\ Alive
    /\ out' = wswor_values(wswor_self)
    /\ last' = [op |-> "take", arg |-> <<>>, res |-> "Ok", pulled |-> 0]
    /\ UNCHANGED <<obj, count, heap, value, exp_value_weight, rng, accepted,
                   rejected>>

WsworIter ==
    /\ obj = "StreamingWswor" /\ Alive
    /\ LET r == wswor_iter(wswor_self)
       IN  /\ heap' = r.self.heap
           /\ out' = r.out
    /\ last' = [op |-> "iter", arg |-> <<>>, res |-> "Ok", pulled |-> 0]
    /\ UNCHANGED <<obj, count, value, exp_value_weight, rng, accepted,
                   rejected>>

SingleFeed(weight, e) ==
    /\ obj = "SingleStreamingWs" /\ CanFeed(1)
    /\ LET r == single_feed(single_self, Len(accepted) + 1, weight, <<e>>)
       IN  /\ value' = r.self.value
           /\ exp_value_weight' = r.self.exp_value_weight
           /\ Record("feed", <<weight>>, r @@ [pulled |-> 1], <<e>>)
    /\ UNCHANGED heap

SingleFeedIter(ws) ==
    /\ obj = "SingleStreamingWs" /\ CanFeed(Len(ws))
    /\ \E src \in [1..single_feed_iter(single_self, Pairs(ws), Pad(ws)).used -> Draws] :
          LET r == single_feed_iter(single_self, Pairs(ws), src)
          IN  /\ value' = r.self.value
              /\ exp_value_weight' = r.self.exp_value_weight
              /\ Record("feed_iter", ws, r, src)
    /\ UNCHANGED heap

SingleTake ==
    /\ obj = "SingleStreamingWs" /\ Alive
    /\ out' = single_values(single_self)
    /\ last' = [op |-> "take", arg |-> <<>>, res |-> "Ok", pulled |-> 0]
    /\ UNCHANGED <<obj, count, heap, value, exp_value_weight, rng, accepted,
                   rejected>>

\* A call wswor(iter, rng, count) on the pairs of ws.
Wswor(ws) ==
    /\ obj = "wswor" /\ last.op = "new"
    /\ \E src \in [1..wswor(Pairs(ws), Pad(ws), count).used -> Draws] :
          LET r == wswor(Pairs(ws), src, count)
          IN  /\ out' = r.out
              /\ rng' = rng \o SubSeq(src, 1, r.used)
              /\ accepted' = accepted \o r.log
              /\ last' = [op |-> "wswor", arg |-> ws, res |-> r.res,
                          pulled |-> r.pulled]
              /\ rejected' = (rejected \/ r.res /= "Ok")
    /\ UNCHANGED <<obj, count, heap, value, exp_value_weight>>

Next ==
    \/ \E weight \in Weights, e \in Draws : WsworFeed(weight, e)
    \/ \E ws \in SeqsUpTo(IterWeights, MaxIter) : WsworFeedIter(ws)
    \/ WsworIter
    \/ WsworTake
    \/ \E weight \in Weights, e \in Draws : SingleFeed(weight, e)
    \/ \E ws \in SeqsUpTo(IterWeights, MaxIter) : SingleFeedIter(ws)
    \/ SingleTake
    \/ \E ws \in SeqsUpTo(CallWeights, MaxIter) : Wswor(ws)

Spec == Init /\ [][Next]_vars

\* The draws of a randomness source that may also yield zero.
FiniteDraws == Draws \cup {zero}

\* The weights check_weight accepts.
ValidWeights == {weight \in Weights : check_weight(weight) = "Ok"}

\* A StreamingWswor fed valid weights from a source that yields any
\* non-negative finite value.
InitAnyDraw == Init /\ obj = "StreamingWswor"

NextAnyDraw ==
    \/ \E weight \in ValidWeights, e \in FiniteDraws : WsworFeed(weight, e)
    \/ WsworIter
    \/ WsworTake

SpecAnyDraw == InitAnyDraw /\ [][NextAnyDraw]_vars

\* Before the construction: count is the capacity the caller asks for.
InitNew ==
    /\ obj = "none"
    /\ count \in 0..usize_MAX
    /\ heap = <<>>
    /\ value = single_new.value
    /\ exp_value_weight = single_new.exp_value_weight
    /\ rng = <<>>
    /\ accepted = <<>>
    /\ last = [op |-> "start", arg |-> <<>>, res |-> "Ok", pulled |-> 0]
    /\ rejected = FALSE
    /\ out = <<>>

\* StreamingWswor::new(count) in a build with or without overflow checks.
\* last.arg holds the capacity asked of BinaryHeap::with_capacity; after a
\* panic there is no reservoir.
New(overflow_checks) ==
    /\ obj = "none" /\ last.op = "start"
    /\ LET r == wswor_new_capacity(count, overflow_checks)
       IN  /\ obj' = IF r.res = "Ok" THEN "StreamingWswor" ELSE "none"
           /\ heap' = r.self.heap
           /\ last' = [op |-> "new", arg |-> <<r.capacity>>, res |-> r.res,
                       pulled |-> 0]
    /\ UNCHANGED <<count, value, exp_value_weight, rng, accepted, rejected,
                   out>>

NextNew ==
    \/ \E overflow_checks \in BOOLEAN : New(overflow_checks)
    \/ \E weight \in ValidWeights, e \in Draws : WsworFeed(weight, e)
    \/ WsworTake

SpecNew == InitNew /\ [][NextNew]_vars

(***************************************************************************)
(* Properties                                                              *)
(***************************************************************************)
Min(a, b) == IF a < b THEN a ELSE b

IsWswor == obj = "StreamingWswor"

IsSingle == obj = "SingleStreamingWs"

\* The values held by the StreamingWswor.
HeldVals == {heap[i].val : i \in 1..Len(heap)}

\* Every float of the format.
Floats ==
    {NAN, Neg(NAN), INFINITY, NEG_INFINITY}
        \cup {Fin(m) : m \in 0..max_value.mag}
        \cup {Neg(Fin(m)) : m \in 0..max_value.mag}

\* A weight that is NaN, infinite or has its sign bit set.
Invalid(f) == f.kind = "nan" \/ f.kind = "inf" \/ f.neg

\* a <= b for two floats neither of which is NaN.
KeyLe(a, b) == a.kind /= "nan" /\ b.kind /= "nan" /\ Rank(a) <= Rank(b)

\* C1: after every feed call a StreamingWswor of capacity count holds
\* min(count, number of feeds with a valid weight) entries.
C1_HeldCount == IsWswor => Len(heap) = Min(count, Len(accepted))

\* A full reservoir that has discarded items, after a rejected feed.
C1_Witness ==
    /\ IsWswor /\ count = 2 /\ Len(accepted) = 4 /\ Len(heap) = 2
    /\ rejected

\* C2: the held entries are the entries built for min(count, accepted items)
\* distinct accepted items, every held key is <= every discarded item's key,
\* and while at most count items were accepted nothing is discarded: take()
\* yields exactly the fed values.
C2_SmallestKeys ==
    IsWswor =>
        /\ Cardinality(HeldVals) = Len(heap)
        /\ Len(heap) = Min(count, Len(accepted))
        /\ \A i \in 1..Len(heap) :
              /\ heap[i].val \in 1..Len(accepted)
              /\ accepted[heap[i].val].key = heap[i].weight
        /\ \A i \in 1..Len(heap) :
              \A j \in 1..Len(accepted) :
                 j \notin HeldVals => KeyLe(heap[i].weight, accepted[j].key)
        /\ Len(accepted) <= count => HeldVals = 1..Len(accepted)
        /\ (last.op = "take" /\ Len(accepted) <= count) =>
              /\ Len(out) = Len(accepted)
              /\ {out[i] : i \in 1..Len(out)} = 1..Len(accepted)

\* A reservoir of capacity 2 that discarded an earlier item with a larger key
\* than both held ones, and kept a later item.
C2_Witness ==
    /\ IsWswor /\ count = 2 /\ Len(accepted) = 4
    /\ \E j \in 1..3 :
          /\ j \notin HeldVals
          /\ 4 \in HeldVals
          /\ \A i \in 1..Len(heap) :
                Rank(heap[i].weight) < Rank(accepted[j].key)

\* C3: check_weight rejects a weight exactly when it is NaN, infinite or has
\* its sign bit set (-0.0 included); +0.0 and every positive finite value
\* are accepted.
C3_Rejects ==
    /\ \A f \in Floats : (check_weight(f) /= "Ok") <=> Invalid(f)
    /\ last.op = "feed" => ((last.res /= "Ok") <=> Invalid(last.arg[1]))

\* A feed of -0.0 was rejected.
C3_Witness ==
    last.op = "feed" /\ last.arg = <<Neg(zero)>> /\ last.res /= "Ok"

\* The failure kind the claim C4 assigns to an invalid weight.
KindOf(f) ==
    IF f.kind = "nan" THEN "NaN"
    ELSE IF f.kind = "inf" THEN "Infinite"
    ELSE "Negative"

\* C4: a rejected weight is reported NaN when it is not a number, Infinite
\* when it is either infinity, Negative for every other value with the sign
\* bit set, -0.0 included.
C4_FailureKind ==
    /\ \A f \in Floats : Invalid(f) => check_weight(f) = KindOf(f)
    /\ (last.op = "feed" /\ Invalid(last.arg[1])) =>
          last.res = KindOf(last.arg[1])

\* A feed of negative infinity was reported as Infinite.
C4_Witness ==
    last.op = "feed" /\ last.arg = <<NEG_INFINITY>> /\ last.res = "Infinite"

\* The accepted items as (weight, value) pairs: the fed stream with the
\* rejected items removed.
AcceptedPairs ==
    [i \in 1..Len(accepted) |-> [w |-> accepted[i].w, v |-> accepted[i].val]]

\* Successive feed calls on the pairs, drawing from src: [self, used, res].
RECURSIVE WsworFeedEach(_, _, _)
WsworFeedEach(self, pairs, src) ==
    IF pairs = <<>> THEN [self |-> self, used |-> 0, res |-> "Ok"]
    ELSE LET r == wswor_feed(self, pairs[1].v, pairs[1].w, src)
             t == WsworFeedEach(r.self, Tail(pairs),
                                SubSeq(src, r.used + 1, Len(src)))
         IN  [self |-> t.self, used |-> r.used + t.used,
              res |-> IF r.res /= "Ok" THEN r.res ELSE t.res]

RECURSIVE SingleFeedEach(_, _, _)
SingleFeedEach(self, pairs, src) ==
    IF pairs = <<>> THEN [self |-> self, used |-> 0, res |-> "Ok"]
    ELSE LET r == single_feed(self, pairs[1].v, pairs[1].w, src)
             t == SingleFeedEach(r.self, Tail(pairs),
                                 SubSeq(src, r.used + 1, Len(src)))
         IN  [self |-> t.self, used |-> r.used + t.used,
              res |-> IF r.res /= "Ok" THEN r.res ELSE t.res]

\* C5: a feed with an invalid weight returns the failure and leaves the
\* reservoir as it was: the heap and count of a StreamingWswor, the slot and
\* key of a SingleStreamingWs.
C5_InvalidFeedNoChange ==
    [][(last'.op = "feed" /\ Invalid(last'.arg[1])) =>
          /\ last'.res /= "Ok"
          /\ heap' = heap
          /\ count' = count
          /\ value' = value
          /\ exp_value_weight' = exp_value_weight]_vars

\* A full StreamingWswor of capacity 2 just rejected a feed.
C5_Witness ==
    /\ IsWswor /\ count = 2 /\ Len(heap) = 2
    /\ last.op = "feed" /\ last.res /= "Ok"

\* C6: a rejected feed consumes no draw: the reservoir is the one reached by
\* feeding a fresh reservoir the accepted items alone, in order, from the
\* same draws, and that uses up exactly the draws consumed so far.
C6_NoDrawOnInvalid ==
    /\ IsWswor =>
          LET r == WsworFeedEach(wswor_new(count), AcceptedPairs, rng)
          IN  r.res = "Ok" /\ r.used = Len(rng) /\ r.self = wswor_self
    /\ IsSingle =>
          LET r == SingleFeedEach(single_new, AcceptedPairs, rng)
          IN  r.res = "Ok" /\ r.used = Len(rng) /\ r.self = single_self

\* After a rejected feed, a later feed of a positive weight was accepted and
\* took its draw.
C6_Witness ==
    /\ IsWswor /\ rejected /\ count >= 1
    /\ last.op = "feed" /\ last.res = "Ok" /\ last.arg = <<one>>
    /\ Len(rng) >= 2

HasInvalid(ws) == \E i \in 1..Len(ws) : Invalid(ws[i])

\* The position (from 1) of the first invalid weight of ws.
FirstInvalid(ws) ==
    CHOOSE i \in 1..Len(ws) :
        Invalid(ws[i]) /\ \A j \in 1..(i - 1) : ~Invalid(ws[j])

\* The draws taken in the step.
StepDraws == SubSeq(rng', Len(rng) + 1, Len(rng'))

\* C7: feed_iter on a sequence whose first invalid weight is the i-th returns
\* that weight's failure, leaves the reservoir as feeding only the i - 1 pairs
\* before it does, and has pulled i pairs: none after the invalid one.
C7_FeedIterStopsAtFirstInvalid ==
    [][(last'.op = "feed_iter" /\ HasInvalid(last'.arg)) =>
          LET ws == last'.arg
              i == FirstInvalid(ws)
              prefix == SubSeq(Pairs(ws), 1, i - 1)
              w == WsworFeedEach(wswor_self, prefix, StepDraws)
              s == SingleFeedEach(single_self, prefix, StepDraws)
          IN  /\ last'.res = KindOf(ws[i])
              /\ last'.pulled = i
              /\ Len(accepted') = Len(accepted) + i - 1
              /\ IsWswor =>
                    /\ w.used = Len(StepDraws)
                    /\ heap' = w.self.heap
              /\ IsSingle =>
                    /\ s.used = Len(StepDraws)
                    /\ value' = s.self.value
                    /\ exp_value_weight' = s.self.exp_value_weight]_vars

\* feed_iter stopped at the second of three pairs, after accepting the first
\* into a reservoir that was already full.
C7_Witness ==
    /\ IsWswor /\ count = 1 /\ Len(accepted) >= 2
    /\ last.op = "feed_iter" /\ last.res /= "Ok"
    /\ Len(last.arg) = 3 /\ last.pulled = 2

\* C8: a StreamingWswor of capacity 0 is empty after every feed, and take()
\* yields nothing.
C8_ZeroCapacityEmpty ==
    (IsWswor /\ count = 0) =>
        /\ heap = <<>>
        /\ last.op = "take" => out = <<>>

\* A capacity-0 reservoir was fed three valid items and taken.
C8_Witness ==
    IsWswor /\ count = 0 /\ Len(accepted) = 3 /\ last.op = "take"

\* The number of positive-weight items among the first i accepted ones.
DrawIndex(i) == Cardinality({j \in 1..i : ~float_eq(accepted[j].w, zero)})

\* The key the claims C9 and C10 give the i-th accepted item.
ClaimedKey(i) ==
    IF float_eq(accepted[i].w, zero) THEN max_value
    ELSE float_div(rng[DrawIndex(i)], accepted[i].w)

\* The keys are the claimed ones and one draw was taken per accepted item of
\* positive weight, none for the others.
KeysAsClaimed ==
    /\ Len(rng) = DrawIndex(Len(accepted))
    /\ \A i \in 1..Len(accepted) : accepted[i].key = ClaimedKey(i)

\* C9: StreamingWswor::feed gives a zero-weight item the key max_value without
\* drawing, and a positive-weight item the key E / weight for one draw E; the
\* draws consumed number the accepted items of positive weight.
C9_WsworKey == IsWswor => KeysAsClaimed

\* A zero-weight item was accepted between two items of positive weight.
C9_Witness ==
    /\ IsWswor /\ Len(accepted) >= 3
    /\ accepted[1].w = one /\ accepted[2].w = zero /\ accepted[3].w = quarter
    /\ accepted[2].key = max_value /\ Len(rng) = 2

\* C10: SingleStreamingWs::feed computes the key as StreamingWswor::feed does:
\* max_value without a draw for a zero weight, E / weight for one draw E
\* otherwise.
C10_SingleKey == IsSingle => KeysAsClaimed

\* The StreamingWswor of capacity 1 fed the accepted items in order from the
\* draw sequence the SingleStreamingWs drew from.
CapacityOneTwin == WsworFeedEach(wswor_new(1), AcceptedPairs, rng).self

\* C11: after every feed, a SingleStreamingWs holds the value that a
\* StreamingWswor of capacity 1 holds after the same feeds from the same draw
\* sequence, and they are empty together.
C11_SingleIsCapacityOne ==
    IsSingle => single_values(single_self) = wswor_values(CapacityOneTwin)

\* The values held by the SingleStreamingWs.
SlotVals == IF value = None THEN {} ELSE {value}

\* C12: get() and take() of a SingleStreamingWs give None exactly when no feed
\* had a valid weight; otherwise they give the value of the accepted item of
\* smallest key (the earliest one of that key).
C12_SingleHoldsSmallest ==
    IsSingle =>
        /\ (value = None) <=> (accepted = <<>>)
        /\ value /= None =>
              /\ value \in 1..Len(accepted)
              /\ accepted[value].key = exp_value_weight
              /\ \A j \in 1..Len(accepted) :
                    KeyLe(exp_value_weight, accepted[j].key)
              /\ \A j \in 1..(value - 1) :
                    Rank(exp_value_weight) < Rank(accepted[j].key)
        /\ last.op = "take" => out = single_values(single_self)

\* The second of three accepted items has the smallest key and was taken.
C12_Witness ==
    /\ IsSingle /\ Len(accepted) = 3 /\ value = 2 /\ last.op = "take"
    /\ out = <<2>>
    /\ Rank(accepted[2].key) < Rank(accepted[1].key)
    /\ Rank(accepted[2].key) < Rank(accepted[3].key)

\* The number of accepted items of positive weight.
PositiveFed ==
    Cardinality({j \in 1..Len(accepted) : ~float_eq(accepted[j].w, zero)})

\* Some held item was fed with weight zero.
HoldsZeroWeight ==
    \E v \in (IF IsWswor THEN HeldVals ELSE SlotVals) :
        float_eq(accepted[v].w, zero)

\* C13: a reservoir holds a zero-weight item only if fewer positive-weight
\* items were accepted than its capacity (1 for a SingleStreamingWs).
C13_ZeroWeightLast ==
    HoldsZeroWeight => PositiveFed < (IF IsWswor THEN count ELSE 1)

\* The pairs of ws as a caller of wswor labels them: 1, 2, ...
CallPairs(ws) == [i \in 1..Len(ws) |-> [w |-> ws[i], v |-> i]]

\* C14: wswor on n pairs with valid weights returns Ok with exactly the
\* values a StreamingWswor::new(count) holds after successive feeds of the
\* pairs from the same draws, min(n, count) of them; with an invalid weight it
\* returns the first failure and no values.
C14_WsworFunction ==
    last.op = "wswor" =>
        LET ws == last.arg
            fed == WsworFeedEach(wswor_new(count), CallPairs(ws), rng)
        IN  IF HasInvalid(ws)
            THEN /\ last.res = KindOf(ws[FirstInvalid(ws)])
                 /\ out = <<>>
            ELSE /\ last.res = "Ok"
                 /\ fed.used = Len(rng)
                 /\ out = wswor_values(fed.self)
                 /\ Len(out) = Min(Len(ws), count)
                 /\ {out[i] : i \in 1..Len(out)} \subseteq 1..Len(ws)

\* wswor returned two of three valid pairs, the first one not among them.
C14_Witness ==
    /\ last.op = "wswor" /\ last.res = "Ok" /\ count = 2
    /\ Len(last.arg) = 3 /\ Len(out) = 2
    /\ \A i \in 1..Len(out) : out[i] /= 1

\* The multiset of the elements of a sequence.
BagOf(s) ==
    [v \in {s[i] : i \in 1..Len(s)} |->
        Cardinality({i \in 1..Len(s) : s[i] = v})]

\* C15: iter() leaves the held entries and the capacity as they were and
\* yields the held values; a second iter() or a take() right after it yields
\* the same multiset of values.
C15_IterDoesNotMutate ==
    [][/\ last'.op = "iter" =>
             /\ heap' = heap
             /\ count' = count
             /\ BagOf(out') = BagOf([i \in 1..Len(heap) |-> heap[i].val])
       /\ (last.op = "iter" /\ last'.op \in {"iter", "take"}) =>
             BagOf(out') = BagOf(out)]_vars

\* iter() on a full reservoir of capacity 2 that had discarded an item.
C15_Witness ==
    /\ IsWswor /\ count = 2 /\ Len(accepted) = 3 /\ last.op = "iter"
    /\ Len(out) = 2 /\ Len(heap) = 2

\* a < b for two floats neither of which is NaN.
KeyLt(a, b) == a.kind /= "nan" /\ b.kind /= "nan" /\ Rank(a) < Rank(b)

\* C17: a SingleStreamingWs::feed with a valid weight replaces the slot when
\* it is empty or the new key is strictly smaller than the held key;
\* otherwise (equal or greater key) the held value and key stay as they were.
C17_SingleReplacesOnlyOnSmaller ==
    [][(IsSingle /\ last'.op = "feed" /\ last'.res = "Ok") =>
          LET new == accepted'[Len(accepted')]
          IN  /\ Len(accepted') = Len(accepted) + 1
              /\ IF value = None \/ KeyLt(new.key, exp_value_weight)
                 THEN value' = new.val /\ exp_value_weight' = new.key
                 ELSE value' = value /\ exp_value_weight' = exp_value_weight]_vars

\* The last feed brought a key equal to the held one and was discarded.
C17_Witness ==
    /\ IsSingle /\ last.op = "feed" /\ last.res = "Ok"
    /\ Len(accepted) >= 2 /\ value = 1
    /\ accepted[Len(accepted)].key = exp_value_weight

\* C18: feed_iter on pairs with valid weights leaves the reservoir as
\* successive feed calls on the same pairs in the same order do, and has
\* taken the draws those calls take.
C18_FeedIterIsSuccessiveFeeds ==
    [][(last'.op = "feed_iter" /\ ~HasInvalid(last'.arg)) =>
          LET ws == last'.arg
              w == WsworFeedEach(wswor_self, Pairs(ws), StepDraws)
              s == SingleFeedEach(single_self, Pairs(ws), StepDraws)
          IN  /\ last'.res = "Ok"
              /\ last'.pulled = Len(ws)
              /\ IsWswor =>
                    /\ w.used = Len(StepDraws)
                    /\ heap' = w.self.heap
                    /\ count' = count
              /\ IsSingle =>
                    /\ s.used = Len(StepDraws)
                    /\ value' = s.self.value
                    /\ exp_value_weight' = s.self.exp_value_weight]_vars

\* feed_iter fed three valid pairs to a reservoir of capacity 2 that held an
\* item already, and what it holds now came from that call.
C18_Witness ==
    /\ IsWswor /\ count = 2 /\ Len(accepted) = 4
    /\ last.op = "feed_iter" /\ last.res = "Ok" /\ Len(last.arg) = 3
    /\ 1 \notin HeldVals

\* C19: the held entries of a StreamingWswor are distinct accepted items, and
\* so are the values iter() and take() yield: no item appears twice and no
\* value that was not fed with a valid weight appears.
C19_WithoutReplacement ==
    IsWswor =>
        /\ Cardinality(HeldVals) = Len(heap)
        /\ HeldVals \subseteq {accepted[j].val : j \in 1..Len(accepted)}
        /\ Cardinality({accepted[j].val : j \in 1..Len(accepted)})
              = Len(accepted)
        /\ last.op \in {"iter", "take"} =>
              /\ Cardinality({out[i] : i \in 1..Len(out)}) = Len(out)
              /\ {out[i] : i \in 1..Len(out)} = HeldVals

\* A full reservoir of capacity 3 was taken after a rejected feed.
C19_Witness ==
    /\ IsWswor /\ count = 3 /\ Len(accepted) = 4 /\ rejected
    /\ last.op = "take" /\ Len(out) = 3

\* The values held by whichever reservoir was constructed.
Held == IF IsWswor THEN HeldVals ELSE SlotVals

DistinctKeys ==
    \A i, j \in 1..Len(accepted) :
        i /= j => accepted[i].key /= accepted[j].key

\* The accepted items in the order p (p[1] is fed first), as pairs.
Reordered(p) ==
    [i \in 1..Len(accepted) |->
        [w |-> accepted[p[i]].w, v |-> accepted[p[i]].val]]

\* The draws the reordered feeds take: each item of positive weight brings
\* the draw it was fed with.
ReorderedDraws(p) ==
    LET order == [i \in 1..Len(accepted) |-> p[i]]
        drawing == SelectSeq(order,
                             LAMBDA j : ~float_eq(accepted[j].w, zero))
    IN  [k \in 1..Len(drawing) |-> rng[DrawIndex(drawing[k])]]

\* The values a fresh StreamingWswor of the same capacity holds after the
\* accepted items were fed in the order p, every item with its own draw.
HeldInOrder(p) ==
    LET r == WsworFeedEach(wswor_new(count), Reordered(p), ReorderedDraws(p))
    IN  {r.self.heap[i].val : i \in 1..Len(r.self.heap)}

\* C21: when the accepted items have pairwise distinct keys, feeding them to a
\* StreamingWswor in any order, each with its own draw, leaves the same set
\* of values held.
C21_OrderIndependent ==
    (IsWswor /\ DistinctKeys) =>
        \A p \in Permutations(1..Len(accepted)) : HeldInOrder(p) = HeldVals

\* Four items of distinct keys, a zero-weight one among them, were fed to a
\* reservoir of capacity 2 that discarded the first of them.
C21_Witness ==
    /\ IsWswor /\ DistinctKeys /\ count = 2 /\ Len(accepted) = 4
    /\ 1 \notin HeldVals
    /\ \E j \in 1..4 : float_eq(accepted[j].w, zero)

\* Every float that is finite and not negative.
NonNegativeFinite == {Fin(m) : m \in 0..max_value.mag}

\* C22: with valid weights and non-negative finite draws no key built by
\* StreamingWswor::feed is NaN, so cmp is defined (its unwrap does not panic)
\* on every two entries the reservoir was given, every feed of a valid
\* weight returns Ok and take() yields every held value.  The statement
\* about every weight and draw of the format does not depend on the state; it
\* is evaluated in the states where nothing was accepted yet.
C22_ComparisonNeverFails ==
    /\ accepted = <<>> =>
          \A w \in NonNegativeFinite, e \in NonNegativeFinite :
             wswor_key(w, <<e>>).key.kind /= "nan"
    /\ \A i, j \in 1..Len(accepted) :
          cmp(WsworEntry(accepted[i].key, accepted[i].val),
              WsworEntry(accepted[j].key, accepted[j].val)) /= "None"
    /\ \A i, j \in 1..Len(heap) : cmp(heap[i], heap[j]) /= "None"
    /\ (last.op = "feed" /\ ~Invalid(last.arg[1])) => last.res = "Ok"
    /\ last.op = "take" => Len(out) = Len(heap)

\* A zero draw and a zero weight both went into a reservoir that was taken.
C22_Witness ==
    /\ IsWswor /\ last.op = "take" /\ Len(out) = 2
    /\ \E i \in 1..Len(rng) : rng[i] = zero
    /\ \E j \in 1..Len(accepted) : float_eq(accepted[j].w, zero)
    /\ \E j \in 1..Len(accepted) : float_eq(accepted[j].key, zero)

\* C23: StreamingWswor::new(count) succeeds for every count of usize: the
\* capacity count + 1 is computed without overflow and the reservoir keeps
\* count as its capacity.
C23_NewNeverOverflows ==
    last.op = "new" =>
        /\ last.res = "Ok"
        /\ last.arg = <<count + 1>>
        /\ wswor_self = wswor_new(count)

====
